---- MODULE Spec2Model ----
(***************************************************************************)
(* Recruitment-Crew notebook (Day I/crew_ollama_deepseek.ipynb): the input *)
(* cell, the four sequential tasks run by crew.kickoff(), main()'s report  *)
(* and the final display cell.                                             *)
(*                                                                         *)
(* Strings the notebook takes apart (input() results) are sequences of     *)
(* symbols: a symbol is one character, or one run of characters that holds *)
(* no comma and no blank (a skill or a role name).  Texts returned by the  *)
(* inference endpoint are opaque values.                                   *)
(***************************************************************************)
EXTENDS Integers, Sequences, FiniteSets, TLC

\* ------------------------------------------------------------------ bounds

\* Longest skill-stack entry string the operator types, in symbols.
MaxStackLen == 2

\* How many times the operator runs main() again in one kernel.
MaxReruns == 1

\* ------------------------------------------------------------ string model

Digits == {"0", "1", "2", "3", "4", "5", "6", "7", "8", "9"}

DigitVal(c) ==
    CASE c = "0" -> 0 [] c = "1" -> 1 [] c = "2" -> 2 [] c = "3" -> 3
      [] c = "4" -> 4 [] c = "5" -> 5 [] c = "6" -> 6 [] c = "7" -> 7
      [] c = "8" -> 8 [] c = "9" -> 9

RECURSIVE LStrip(_)
LStrip(s) ==
    IF s # <<>> /\ Head(s) = " " THEN LStrip(Tail(s)) ELSE s

RECURSIVE RStrip(_)
RStrip(s) ==
    IF s # <<>> /\ s[Len(s)] = " " THEN RStrip(SubSeq(s, 1, Len(s) - 1)) ELSE s

\* str.strip(): leading and trailing blanks removed.
strip(s) == RStrip(LStrip(s))

\* str.split(","): cut at every comma, empty pieces kept.
RECURSIVE split(_)
split(s) ==
    IF \A i \in 1..Len(s) : s[i] # ","
    THEN <<s>>
    ELSE LET k == CHOOSE i \in 1..Len(s) :
                      s[i] = "," /\ \A j \in 1..(i - 1) : s[j] # ","
         IN  <<SubSeq(s, 1, k - 1)>> \o split(SubSeq(s, k + 1, Len(s)))

\* The digits of an int() literal: digits, single underscores only between them.
WellFormedDigits(d) ==
    /\ d # <<>>
    /\ \A i \in 1..Len(d) : d[i] \in Digits \cup {"_"}
    /\ d[1] # "_" /\ d[Len(d)] # "_"
    /\ \A i \in 1..(Len(d) - 1) : ~(d[i] = "_" /\ d[i + 1] = "_")

RECURSIVE DigitsValue(_)
DigitsValue(d) ==
    IF d = <<>> THEN 0
    ELSE LET c == d[Len(d)]
             r == SubSeq(d, 1, Len(d) - 1)
         IN  IF c = "_" THEN DigitsValue(r) ELSE 10 * DigitsValue(r) + DigitVal(c)

Signed(s) == strip(s) # <<>> /\ Head(strip(s)) \in {"+", "-"}

Unsigned(s) == IF Signed(s) THEN Tail(strip(s)) ELSE strip(s)

\* The strings int() accepts: blanks stripped, an optional sign, then the digits.
IsNumeric(s) == WellFormedDigits(Unsigned(s))

\* int(s) lenient: a default instead of the exception.
int_or_zero(s) ==
    IF ~IsNumeric(s) THEN [raised |-> "none", val |-> 0]
    ELSE [raised |-> "none",
          val |-> IF Head(strip(s)) = "-" THEN 0 - DigitsValue(Unsigned(s))
                  ELSE DigitsValue(Unsigned(s))]

\* int(s) for a str: its value, or ValueError raised.
int(s) ==
    IF ~IsNumeric(s) THEN [raised |-> "ValueError", val |-> 0]
    ELSE [raised |-> "none",
          val |-> IF Head(strip(s)) = "-" THEN 0 - DigitsValue(Unsigned(s))
                  ELSE DigitsValue(Unsigned(s))]

\* ---------------------------------------------------------- candidate_db

c101 ==
    [id |-> "c-101", full_name |-> "Alex Ivanov", email |-> "alex@devmail.com",
     role |-> "Full-Stack Developer", experience_years |-> 5, budget |-> 4000,
     stack |-> <<"React", "Node.js", "PostgreSQL", "Docker">>]

c202 ==
    [id |-> "c-202", full_name |-> "Maria Petrova", email |-> "maria@devmail.com",
     role |-> "Backend Developer", experience_years |-> 4, budget |-> 3500,
     stack |-> <<"Node.js", "MongoDB", "Docker", "AWS">>]

c303 ==
    [id |-> "c-303", full_name |-> "Oleg Smirnov", email |-> "oleg.smirnov@devmail.com",
     role |-> "DevOps Engineer", experience_years |-> 6, budget |-> 4500,
     stack |-> <<"AWS", "Docker", "Kubernetes", "Terraform", "Ansible">>]

c404 ==
    [id |-> "c-404", full_name |-> "Elena Kozlova", email |-> "elena.kozlova@devmail.com",
     role |-> "Frontend Developer", experience_years |-> 3, budget |-> 3200,
     stack |-> <<"Vue.js", "TypeScript", "TailwindCSS", "Vite">>]

c505 ==
    [id |-> "c-505", full_name |-> "Dmitry Lebedev", email |-> "dmitry.lebedev@devmail.com",
     role |-> "Data Engineer", experience_years |-> 5, budget |-> 4800,
     stack |-> <<"Python", "Spark", "Airflow", "Kafka", "Redshift">>]

c606 ==
    [id |-> "c-606", full_name |-> "Anna Baranov", email |-> "anna.baranov@devmail.com",
     role |-> "QA Automation Engineer", experience_years |-> 4, budget |-> 3300,
     stack |-> <<"Java", "Selenium", "Cypress", "JUnit", "Docker">>]

\* candidate_db with c-303 asking no more than the others.
candidate_db_flat_budget ==
    <<c101, c202, [c303 EXCEPT !.budget = 4000], c404, c505, c606>>

candidate_db == <<c101, c202, c303, c404, c505, c606>>

\* ------------------------------------------------------------------ tasks

\* Crew(tasks=[task_profile, task_match, task_offer, task_send]).
tasks == <<"task_profile", "task_match", "task_offer", "task_send">>

output_key(t) ==
    CASE t = "task_profile" -> "candidate_profile"
      [] t = "task_match"   -> "matched_candidate"
      [] t = "task_offer"   -> "offer_email"
      [] t = "task_send"    -> "send_status"

\* context left out of the last two tasks: every earlier task's output is handed on.
context_all_earlier(t) ==
    CASE t = "task_profile" -> <<>>
      [] t = "task_match"   -> <<"task_profile">>
      [] t = "task_offer"   -> <<"task_profile", "task_match">>
      [] t = "task_send"    -> <<"task_profile", "task_match", "task_offer">>

\* Task(context=[...]): the tasks whose outputs a task is handed.
context(t) ==
    CASE t = "task_profile" -> <<>>
      [] t = "task_match"   -> <<"task_profile">>
      [] t = "task_offer"   -> <<"task_profile", "task_match">>
      [] t = "task_send"    -> <<"task_offer", "task_match">>

\* input_data given to every task.
input_data_every_task(t) == {"candidate_db"}

\* Task(input_data=...): the names of the auxiliary datasets a task is handed.
input_data(t) ==
    IF t = "task_match" THEN {"candidate_db"} ELSE {}

\* The crew moving on by two.
NextTaskSkipping(i) == i + 2

\* Process.sequential: the task run after the i-th one.
NextTask(i) == i + 1

\* ------------------------------------------------- task_match's description

Range(q) == {q[i] : i \in 1..Len(q)}

\* "candidate's budget <= required; experience >= required."
Qualifies(inp, rec) ==
    /\ rec.budget <= inp.budget
    /\ rec.experience_years >= inp.experience_years

\* "role match": the entered role is the record's role.
RoleMatch(inp, rec) == inp.role = <<rec.role>>

\* "stack overlap": the record's skills that are entries of the entered stack.
Overlap(inp, rec) ==
    Cardinality({i \in 1..Len(rec.stack) : <<rec.stack[i]>> \in Range(inp.stack)})

Qualifying(inp) ==
    {i \in 1..Len(candidate_db) : Qualifies(inp, candidate_db[i])}

\* ----------------------------------------------------- operator and endpoint

\* What the operator may type at the four prompts.
RoleEntries == { <<"Backend Developer">>, <<" ", "DevOps Engineer", " ">> }

ExpEntries == { <<"4">>, <<" ", "6">>, <<"s", "i", "x">>, <<>> }

BudgetEntries == { <<"4", "0", "0", "0">>, <<"3", "_", "5", "0", "0", " ">>,
                   <<"4", "k">>, <<"4", ".", "5">> }

StackSymbols == {",", " ", "Node.js"}

RECURSIVE SeqsUpTo(_, _)
SeqsUpTo(S, n) ==
    IF n = 0 THEN {<<>>}
    ELSE LET shorter == SeqsUpTo(S, n - 1)
         IN  shorter \cup {Append(q, x) : q \in shorter, x \in S}

StackEntries == SeqsUpTo(StackSymbols, MaxStackLen)

\* Texts the inference endpoint may answer with.  A candidate record returned
\* as JSON is named by its id.
Malformed == {"", "garbled"}

RecordTexts == {candidate_db[i].id : i \in 1..Len(candidate_db)}

Responses(t) ==
    Malformed \cup
    CASE t = "task_profile" -> {"profile-json"}
      [] t = "task_match"   -> RecordTexts
      [] t = "task_offer"   -> {"offer-md"}
      [] t = "task_send"    -> {"sent-line"}

Texts == UNION {Responses(tasks[i]) : i \in 1..Len(tasks)}

\* ------------------------------------------------------------------ state

VARIABLES
    pc,             \* the notebook cell or call that runs next
    globals,        \* names bound in the kernel's namespace
    role_inp, exp_inp, budget_inp, stack_inp_raw,   \* the input() results
    candidate_input,
    db,             \* the list bound to candidate_db
    earlier,        \* the outputs of main()'s earlier runs in this kernel
    current,        \* index in tasks of the task the crew is at
    phase,          \* "ready": before its endpoint call; "calling": in it
    requests,       \* what each started task was handed
    responses,      \* what the endpoint answered, in order
    results,        \* the task outputs, in order of completion
    trace,          \* task starts and ends, in order
    raised,         \* the exception that ended the run, or "none"
    printed,        \* what main() printed
    result,         \* what main() returned
    rendered        \* what the display cell displayed

vars == <<pc, globals, role_inp, exp_inp, budget_inp, stack_inp_raw,
          candidate_input, db, earlier, current, phase, requests, responses, results,
          trace, raised, printed, result, rendered>>

inputs == <<role_inp, exp_inp, budget_inp, stack_inp_raw, candidate_input>>

crew == <<current, phase, requests, responses, results, trace>>

\* The store and the record of main()'s earlier runs.
kept == <<db, earlier>>

Init ==
    /\ pc = "input"
    /\ globals = {"candidate_db"}
    /\ role_inp = <<>> /\ exp_inp = <<>> /\ budget_inp = <<>>
    /\ stack_inp_raw = <<>>
    /\ candidate_input = [role |-> <<>>, experience_years |-> 0, budget |-> 0,
                          stack |-> <<>>]
    /\ db = candidate_db
    /\ earlier = <<>>
    /\ current = 1
    /\ phase = "ready"
    /\ requests = <<>>
    /\ responses = <<>>
    /\ results = <<>>
    /\ trace = <<>>
    /\ raised = "none"
    /\ printed = <<>>
    /\ result = [candidate |-> "", status |-> ""]
    /\ rendered = <<>>

\* ----------------------------------------------------------- the input cell

\* The empty pieces dropped: [s.strip() for s in ... if s.strip()].
StackOfNonEmpty(s) ==
    SelectSeq([i \in 1..Len(split(s)) |-> strip(split(s)[i])],
              LAMBDA x : x # <<>>)

\* [s.strip() for s in stack_inp_raw.split(",")]
StackOf(s) == [i \in 1..Len(split(s)) |-> strip(split(s)[i])]

\* The cell that reads the four entries, builds candidate_input and defines the
\* four tasks.  int() raising ends the cell before any task is defined.
DefineTasks(r, e, b, s) ==
    /\ pc = "input"
    /\ role_inp' = r /\ exp_inp' = e /\ budget_inp' = b /\ stack_inp_raw' = s
    /\ IF int(e).raised # "none" \/ int(b).raised # "none"
       THEN /\ raised' = IF int(e).raised # "none" THEN int(e).raised
                         ELSE int(b).raised
            /\ pc' = "halted"
            /\ globals' = globals \cup
                   {"role_inp", "exp_inp", "budget_inp", "stack_inp_raw"}
            /\ UNCHANGED candidate_input
       ELSE /\ candidate_input' =
                   [role |-> strip(r), experience_years |-> int(e).val,
                    budget |-> int(b).val, stack |-> StackOf(s)]
            /\ pc' = "main"
            /\ globals' = globals \cup
                   {"role_inp", "exp_inp", "budget_inp", "stack_inp_raw",
                    "candidate_input", "task_profile", "task_match",
                    "task_offer", "task_send"}
            /\ UNCHANGED raised
    /\ UNCHANGED <<kept, crew, printed, result, rendered>>

\* ------------------------------------------------------------------ main()

\* main() builds the crew and calls crew.kickoff().
Kickoff ==
    /\ pc = "main"
    /\ pc' = "kickoff"
    /\ current' = 1
    /\ phase' = "ready"
    /\ UNCHANGED <<globals, inputs, kept, requests, responses, results, trace,
                   raised, printed, result, rendered>>

Finished == {results[k].task : k \in 1..Len(results)}

OutputOf(t) == (CHOOSE k \in 1..Len(results) : results[k].task = t)

\* The outputs of the tasks a task names as its context, those produced so far.
ContextFor(t) ==
    LET deps == SelectSeq(context(t), LAMBDA d : d \in Finished)
    IN  [k \in 1..Len(deps) |->
            [task |-> deps[k], raw |-> results[OutputOf(deps[k])].raw]]

\* The crew hands the task at hand its context and data and calls the endpoint.
StepStart ==
    /\ pc = "kickoff" /\ phase = "ready" /\ current \in 1..Len(tasks)
    /\ requests' = Append(requests,
                      [task |-> tasks[current],
                       context |-> ContextFor(tasks[current]),
                       input_data |->
                           [n \in input_data(tasks[current]) |-> db]])
    /\ trace' = Append(trace, <<"start", tasks[current]>>)
    /\ phase' = "calling"
    /\ UNCHANGED <<pc, globals, inputs, kept, current, responses, results,
                   raised, printed, result, rendered>>

\* TaskOutput.raw: the endpoint's text as the task's output.
raw_checked(text) == IF text \in Malformed THEN "invalid" ELSE text

raw(text) == text

\* The endpoint answers; the text is recorded under the task's output key and
\* the crew moves on.
StepReturn(text) ==
    /\ pc = "kickoff" /\ phase = "calling"
    /\ text \in Responses(tasks[current])
    /\ responses' = Append(responses, text)
    /\ results' = Append(results,
                     [task |-> tasks[current], key |-> output_key(tasks[current]),
                      raw |-> raw(text)])
    /\ trace' = Append(trace, <<"end", tasks[current]>>)
    /\ current' = NextTask(current)
    /\ phase' = "ready"
    /\ UNCHANGED <<pc, globals, inputs, kept, requests, raised, printed,
                   result, rendered>>

\* The failed call tried again.
StepFailRetried ==
    /\ pc = "kickoff" /\ phase = "calling"
    /\ raised' = "EndpointError"
    /\ phase' = "ready"
    /\ UNCHANGED <<pc, globals, inputs, kept, current, requests, responses,
                   results, trace, printed, result, rendered>>

\* The endpoint call raises inside kickoff(); main() has no handler.
StepFail ==
    /\ pc = "kickoff" /\ phase = "calling"
    /\ raised' = "EndpointError"
    /\ pc' = "halted"
    /\ UNCHANGED <<globals, inputs, kept, crew, printed, result, rendered>>

RawOf(t) == IF t \in Finished THEN results[OutputOf(t)].raw ELSE "None"

\* kickoff() has returned: main() reads the four outputs, prints two of them
\* and returns; the cell binds result.
Report ==
    /\ pc = "kickoff" /\ phase = "ready" /\ current \notin 1..Len(tasks)
    /\ printed' = printed \o <<RawOf("task_match"), RawOf("task_send")>>
    /\ result' = [candidate |-> RawOf("task_match"), status |-> RawOf("task_send")]
    /\ globals' = globals \cup {"result"}
    /\ pc' = "display"
    /\ UNCHANGED <<inputs, kept, crew, raised, rendered>>

\* ------------------------------------------------------- the display cell

\* markdown_text = final_status.raw; display(Markdown(markdown_text))
Display ==
    /\ pc = "display"
    /\ IF "final_status" \in globals
       THEN /\ rendered' = Append(rendered, RawOf("task_send"))
            /\ pc' = "done"
            /\ UNCHANGED raised
       ELSE /\ raised' = "NameError"
            /\ pc' = "halted"
            /\ UNCHANGED rendered
    /\ UNCHANGED <<globals, inputs, kept, crew, printed, result>>

Next ==
    \/ \E r \in RoleEntries, e \in ExpEntries, b \in BudgetEntries,
          s \in StackEntries : DefineTasks(r, e, b, s)
    \/ Kickoff
    \/ StepStart
    \/ \E text \in Texts : StepReturn(text)
    \/ StepFail
    \/ Report
    \/ Display

Spec == Init /\ [][Next]_vars

\* ------------------------------------------------------ main() run again

\* The cell "result = main()" run again after main() has returned: a new crew
\* over the same tasks, candidate_input and candidate_db; the cell's earlier
\* output is replaced, result stays bound until main() returns again.
Rerun ==
    /\ pc = "display"
    /\ Len(earlier) < MaxReruns
    /\ earlier' = Append(earlier, result)
    /\ pc' = "kickoff"
    /\ current' = 1
    /\ phase' = "ready"
    /\ requests' = <<>> /\ responses' = <<>> /\ results' = <<>> /\ trace' = <<>>
    /\ printed' = <<>>
    /\ UNCHANGED <<globals, inputs, db, raised, result, rendered>>

\* The stack entry typed in the runs where main() is run again.
RerunStackEntries == { <<"Node.js">> }

NextTwice ==
    \/ \E r \in RoleEntries, e \in ExpEntries, b \in BudgetEntries,
          s \in RerunStackEntries : DefineTasks(r, e, b, s)
    \/ Kickoff
    \/ StepStart
    \/ \E text \in Texts : StepReturn(text)
    \/ StepFail
    \/ Report
    \/ Display
    \/ Rerun

SpecTwice == Init /\ [][NextTwice]_vars

\* ================================================================== claims

KickoffReturned == "result" \in globals

IsPrefix(a, b) == Len(a) <= Len(b) /\ a = SubSeq(b, 1, Len(a))

\* profile, match, offer, send, each started and ended once, in that order.
FourStepsInOrder ==
    << <<"start", "task_profile">>, <<"end", "task_profile">>,
       <<"start", "task_match">>,   <<"end", "task_match">>,
       <<"start", "task_offer">>,   <<"end", "task_offer">>,
       <<"start", "task_send">>,    <<"end", "task_send">> >>

\* C1: the starts and ends of the steps so far are always an initial part of
\* start profile, end profile, start match, end match, start offer, end offer,
\* start send, end send (so no step is skipped, repeated, revisited or started
\* before the one before it has ended), and once kickoff() has returned
\* without an exception they are all of it.
C1_StepsOnceInOrder ==
    /\ IsPrefix(trace, FourStepsInOrder)
    /\ KickoffReturned => trace = FourStepsInOrder

C1_Witness ==
    /\ KickoffReturned
    /\ trace = FourStepsInOrder
    /\ raised = "none"

DeclaredDependencies(t) ==
    CASE t = "task_profile" -> {}
      [] t = "task_match"   -> {"task_profile"}
      [] t = "task_offer"   -> {"task_profile", "task_match"}
      [] t = "task_send"    -> {"task_offer", "task_match"}

\* C2: once kickoff() has returned there are exactly four results, those of
\* profile, match, offer, send in that order; and the context every started
\* step was handed holds one entry for each of its declared dependencies
\* (none; profile; profile and match; offer and match), no other entry, each
\* entry being the output that an earlier step had already produced.
C2_FourResultsDeclaredContexts ==
    /\ KickoffReturned =>
          /\ Len(results) = 4
          /\ [k \in 1..4 |-> results[k].task] =
                <<"task_profile", "task_match", "task_offer", "task_send">>
    /\ \A k \in 1..Len(requests) :
          LET q == requests[k]
          IN  /\ {q.context[j].task : j \in 1..Len(q.context)} =
                     DeclaredDependencies(q.task)
              /\ Len(q.context) = Cardinality(DeclaredDependencies(q.task))
              /\ \A j \in 1..Len(q.context) :
                    \E m \in 1..(k - 1) :
                       /\ m <= Len(results)
                       /\ results[m].task = q.context[j].task
                       /\ results[m].raw = q.context[j].raw

C2_Witness ==
    /\ KickoffReturned
    /\ Len(requests) = 4
    /\ requests[4].context =
          << [task |-> "task_offer", raw |-> "offer-md"],
             [task |-> "task_match", raw |-> "c-202"] >>
    /\ requests[3].context =
          << [task |-> "task_profile", raw |-> "profile-json"],
             [task |-> "task_match", raw |-> "c-202"] >>

MatchDone == "task_match" \in Finished

\* C3: whenever the matching step has answered for an input that some record
\* satisfies in both hard constraints, its answer is one record of the store,
\* and that record's budget is at most the input's and its experience at
\* least the input's.
C3_MatchMeetsHardConstraints ==
    (MatchDone /\ Qualifying(candidate_input) # {}) =>
        \E i \in Qualifying(candidate_input) :
            RawOf("task_match") = candidate_db[i].id

BackendInput ==
    [role |-> <<"Backend Developer">>, experience_years |-> 4, budget |-> 4000,
     stack |-> << <<"Node.js">> >>]

\* C4: for the input Backend Developer, 4 years, budget 4000, stack Node.js,
\* the matching step's answer is record c-202.
C4_BackendInputSelectsC202 ==
    (MatchDone /\ candidate_input = BackendInput) =>
        RawOf("task_match") = "c-202"

\* The records that meet both hard constraints and the primary criterion
\* (the role, or an overlapping stack).
Eligible(inp) ==
    {i \in Qualifying(inp) :
        RoleMatch(inp, candidate_db[i]) \/ Overlap(inp, candidate_db[i]) > 0}

\* Higher overlap first, then the lower budget.
Preferred(inp, i, j) ==
    \/ Overlap(inp, candidate_db[i]) > Overlap(inp, candidate_db[j])
    \/ /\ Overlap(inp, candidate_db[i]) = Overlap(inp, candidate_db[j])
       /\ candidate_db[i].budget < candidate_db[j].budget

\* C5: when several records meet both hard constraints and the primary
\* criterion, the matching step's answer is the one of them with the highest
\* stack overlap, the one with the lowest budget among those of equal overlap.
C5_TieBreakOverlapThenBudget ==
    (MatchDone /\ Cardinality(Eligible(candidate_input)) >= 2) =>
        \E i \in Eligible(candidate_input) :
            /\ RawOf("task_match") = candidate_db[i].id
            /\ \A j \in Eligible(candidate_input) \ {i} :
                  Preferred(candidate_input, i, j)

TaskNames == {"task_profile", "task_match", "task_offer", "task_send"}

\* C7: once the input cell has run on an experience or budget entry that is
\* not numeric, the run has ended with ValueError, no task is defined, no step
\* has started and there is no step result.
C7_NonNumericEndsBeforeSteps ==
    (pc # "input" /\ (~IsNumeric(exp_inp) \/ ~IsNumeric(budget_inp))) =>
        /\ raised = "ValueError"
        /\ pc = "halted"
        /\ globals \cap TaskNames = {}
        /\ trace = <<>> /\ requests = <<>> /\ results = <<>>
        /\ printed = <<>> /\ rendered = <<>>

C7_Witness ==
    /\ pc = "halted"
    /\ IsNumeric(exp_inp)
    /\ budget_inp = <<"4", "k">>
    /\ raised = "ValueError"

\* C8: once the endpoint call of a step has failed, the run is over: that step
\* was called once and has no result, no later step has started, main() has
\* printed and returned nothing and nothing is displayed.
C8_EndpointErrorAborts ==
    raised = "EndpointError" =>
        /\ pc = "halted"
        /\ Len(requests) = Len(results) + 1
        /\ \A k, m \in 1..Len(requests) :
              requests[k].task = requests[m].task => k = m
        /\ trace[Len(trace)] = <<"start", requests[Len(requests)].task>>
        /\ printed = <<>>
        /\ ~KickoffReturned
        /\ rendered = <<>>

C8_Witness ==
    /\ raised = "EndpointError"
    /\ Len(results) = 1
    /\ requests[Len(requests)].task = "task_match"

SomeMalformed == \E k \in 1..Len(results) : responses[k] \in Malformed

\* C9: every step's output is the endpoint's answer as it came, and so is
\* every context entry made from it; and with an empty or malformed answer on
\* record the run goes on as it would anyway: unless an endpoint call fails,
\* the next step can start, or a call is in flight, or kickoff() has returned
\* with all four results.
C9_MalformedRecordedAndPassedOn ==
    /\ Len(results) <= Len(responses)
    /\ \A k \in 1..Len(results) : results[k].raw = responses[k]
    /\ \A k \in 1..Len(requests) : \A j \in 1..Len(requests[k].context) :
          \E m \in 1..Len(results) :
             /\ results[m].task = requests[k].context[j].task
             /\ requests[k].context[j].raw = responses[m]
    /\ (SomeMalformed /\ raised # "EndpointError") =>
          \/ pc = "kickoff" /\ phase = "calling"
          \/ pc = "kickoff" /\ Len(results) < 4 /\ ENABLED StepStart
          \/ Len(results) = 4

C9_Witness ==
    /\ KickoffReturned
    /\ responses = <<"", "garbled", "", "garbled">>
    /\ requests[3].context =
          << [task |-> "task_profile", raw |-> ""],
             [task |-> "task_match", raw |-> "garbled"] >>
    /\ requests[4].context =
          << [task |-> "task_offer", raw |-> ""],
             [task |-> "task_match", raw |-> "garbled"] >>

\* C10: once the display cell has run after a completed run, what it has
\* displayed is the send step's output and nothing else.
C10_DisplayRendersSendOutput ==
    (KickoffReturned /\ pc \in {"done", "halted"}) =>
        rendered = <<RawOf("task_send")>>

\* C11: the list bound to candidate_db always holds the six records of the
\* notebook, in their order; the matching step is handed it, whole, and no
\* other step is handed any data; once kickoff() has returned exactly one
\* step has received it.
C11_StoreKeptAndOnlyForMatch ==
    /\ db = <<c101, c202, c303, c404, c505, c606>>
    /\ \A k \in 1..Len(requests) :
          IF requests[k].task = "task_match"
          THEN /\ DOMAIN requests[k].input_data = {"candidate_db"}
               /\ requests[k].input_data["candidate_db"] =
                     <<c101, c202, c303, c404, c505, c606>>
          ELSE DOMAIN requests[k].input_data = {}
    /\ KickoffReturned =>
          Cardinality({k \in 1..Len(requests) :
                          DOMAIN requests[k].input_data # {}}) = 1

C11_Witness ==
    /\ KickoffReturned
    /\ Len(requests) = 4
    /\ requests[2].task = "task_match"
    /\ Len(requests[2].input_data["candidate_db"]) = 6
    /\ db = candidate_db

\* C12: when main() is run again in the same kernel, on the same
\* candidate_input and with candidate_db as it was, the matching step's answer
\* (record and reason) is the one the run before returned.
C12_RerunSameMatch ==
    (earlier # <<>> /\ MatchDone /\ db = candidate_db) =>
        RawOf("task_match") = earlier[Len(earlier)].candidate

CommaCount(s) == Cardinality({i \in 1..Len(s) : s[i] = ","})

RECURSIVE Flatten(_)
Flatten(q) == IF q = <<>> THEN <<>> ELSE Head(q) \o Flatten(Tail(q))

Skills(s) == SelectSeq(s, LAMBDA x : x \notin {",", " "})

\* C13: once the input cell has built candidate_input, its stack has one
\* entry more than the entry string has commas; no entry holds a comma or
\* begins or ends with a blank; the entries hold, in order, what the string
\* holds apart from commas and blanks; and the empty string gives the stack
\* whose only entry is the empty string.
C13_StackSplitAtCommasTrimmed ==
    "candidate_input" \in globals =>
        /\ Len(candidate_input.stack) = CommaCount(stack_inp_raw) + 1
        /\ \A i \in 1..Len(candidate_input.stack) :
              LET x == candidate_input.stack[i]
              IN  /\ \A j \in 1..Len(x) : x[j] # ","
                  /\ x # <<>> => x[1] # " " /\ x[Len(x)] # " "
        /\ Skills(Flatten(candidate_input.stack)) = Skills(stack_inp_raw)
        /\ stack_inp_raw = <<>> => candidate_input.stack = << <<>> >>

C13_Witness ==
    /\ "candidate_input" \in globals
    /\ stack_inp_raw = <<>>
    /\ candidate_input.stack = << <<>> >>
    /\ candidate_input.stack # <<>>

====
